---- MODULE Spec2Model ----
(***************************************************************************)
(* Model of src/src/rpc/util.cpp (Elements): the RPC helper functions      *)
(* CreateMultisigRedeemscript, DescribeAddress, RPCHelpMan::ToString,      *)
(* RPCArg::ToString / ToStringObj, GetDestinationBlindingKey,              *)
(* IsBlindDestination, DescribeBlindAddress and AmountMapToUniv.           *)
(*                                                                         *)
(* Every function is a pure, synchronous call.  A behaviour is one call:   *)
(* the initial state holds the arguments the caller has constructed        *)
(* (pc = "start"), the one step applies the function and stores what it    *)
(* returns or how it fails (pc = "done").                                  *)
(*                                                                         *)
(* Strings are sequences of one-character strings, byte vectors are        *)
(* sequences of 0..255, a UniValue is a record with a typ field.           *)
(***************************************************************************)
EXTENDS Integers, Sequences, FiniteSets

VARIABLES pc, call, ret

vars == <<pc, call, ret>>

(***************************************************************************)
(* Bounds of the model                                                     *)
(***************************************************************************)
\* largest number of public keys handed to CreateMultisigRedeemscript
MaxKeys == 17
\* largest number of nodes of an RPCArg tree handed to RPCArg::ToString
MaxNodes == 3
\* largest number of arguments of an RPCHelpMan
MaxArgs == 3

(***************************************************************************)
(* Generic helpers                                                         *)
(***************************************************************************)
Range(s) == {s[i] : i \in 1..Len(s)}

\* n copies of the byte b
Fill(n, b) == [i \in 1..n |-> b]

RECURSIVE Flatten(_)
\* concatenation of a sequence of sequences
Flatten(ss) == IF ss = <<>> THEN <<>> ELSE Head(ss) \o Flatten(Tail(ss))

\* absence of a return value (the call has not returned yet)
NoRet == [typ |-> "none"]

(***************************************************************************)
(* util/strencodings.h: HexStr                                             *)
(***************************************************************************)
hexmap == <<"0", "1", "2", "3", "4", "5", "6", "7",
            "8", "9", "a", "b", "c", "d", "e", "f">>

RECURSIVE HexStr(_)
\* two lower-case hex digits per byte, high nibble first
HexStr(bytes) ==
    IF bytes = <<>> THEN <<>>
    ELSE <<hexmap[(Head(bytes) \div 16) + 1], hexmap[(Head(bytes) % 16) + 1]>>
         \o HexStr(Tail(bytes))

(***************************************************************************)
(* pubkey.h: CPubKey.  A key is its byte vector vch[0..size()); the        *)
(* default-constructed (invalidated) key has size 0.                       *)
(***************************************************************************)
\* CPubKey::GetLen(chHeader): the size the header byte announces
GetLen(chHeader) ==
    IF chHeader \in {2, 3} THEN 33
    ELSE IF chHeader \in {4, 6, 7} THEN 65
    ELSE 0

\* CPubKey(): the invalid, empty key
CPubKey == <<>>

\* a compressed key whose 32 coordinate bytes all equal x
CompressedKey(hdr, x) == <<hdr>> \o Fill(32, x)

\* an uncompressed key whose 64 coordinate bytes all equal x
UncompressedKey(x) == <<4>> \o Fill(64, x)

\* modulus of the miniature curve y^2 = x^3 + 7 that stands for secp256k1
FieldPrime == 251

\* CPubKey::IsFullyValid: size() > 0 and the bytes parse as a curve point.
\* The curve is the miniature y^2 = x^3 + 7 (mod FieldPrime) on the leading
\* coordinate byte.
IsFullyValid(key) ==
    /\ Len(key) > 0
    /\ Len(key) = GetLen(key[1])
    /\ key[1] \in {2, 3}
    /\ key[2] < FieldPrime
    /\ \E y \in 0..(FieldPrime - 1) :
          (y * y) % FieldPrime = (key[2] * key[2] * key[2] + 7) % FieldPrime

\* the blinding keys a destination is constructed with: none, two valid
\* points, and a well-formed key that is not a point
BlindingKeys ==
    {CPubKey, CompressedKey(2, 2), CompressedKey(3, 8), CompressedKey(2, 1)}

(***************************************************************************)
(* script/standard.h: CTxDestination, a variant of seven alternatives      *)
(***************************************************************************)
\* 20-byte hashes (uint160) and 32-byte hashes (uint256)
Hash160s == {Fill(20, 0), Fill(20, 171), <<1, 35, 69, 103, 137>> \o Fill(15, 255)}
Hash256s == {Fill(32, 0), <<222, 173, 190, 239>> \o Fill(28, 16)}

\* witness programs of an unknown version: the 40-byte array and the
\* number of bytes of it that are in use
WitnessPrograms ==
    { [length |-> 2,  program |-> <<81, 82>> \o Fill(38, 0)],
      [length |-> 2,  program |-> <<81, 82>> \o Fill(38, 204)],
      [length |-> 33, program |-> Fill(33, 7) \o Fill(7, 0)],
      [length |-> 40, program |-> Fill(39, 254) \o <<1>>] }

WitnessVersions == {1, 3, 16}

CNoDestination == {[type |-> "CNoDestination"]}
PKHash == [type : {"PKHash"}, hash : Hash160s, blinding_pubkey : BlindingKeys]
ScriptHash == [type : {"ScriptHash"}, hash : Hash160s, blinding_pubkey : BlindingKeys]
WitnessV0KeyHash ==
    [type : {"WitnessV0KeyHash"}, hash : Hash160s, blinding_pubkey : BlindingKeys]
WitnessV0ScriptHash ==
    [type : {"WitnessV0ScriptHash"}, hash : Hash256s, blinding_pubkey : BlindingKeys]
WitnessUnknown ==
    { [type |-> "WitnessUnknown", version |-> v, length |-> p.length,
       program |-> p.program, blinding_pubkey |-> k] :
         v \in WitnessVersions, p \in WitnessPrograms, k \in BlindingKeys }
NullData == {[type |-> "NullData"]}

CTxDestination ==
    CNoDestination \cup PKHash \cup ScriptHash \cup WitnessV0KeyHash
        \cup WitnessV0ScriptHash \cup WitnessUnknown \cup NullData

(***************************************************************************)
(* univalue: objects keep their keys in insertion order                    *)
(***************************************************************************)
\* UniValue(UniValue::VOBJ)
VOBJ == [typ |-> "VOBJ", kv |-> <<>>]

\* NullUniValue
NullUniValue == [typ |-> "VNULL"]

\* UniValue::pushKV on an object: replaces the value of a key that is
\* already there, appends the pair otherwise
pushKV(obj, key, val) ==
    IF \E i \in 1..Len(obj.kv) : obj.kv[i][1] = key
    THEN [obj EXCEPT !.kv = [i \in 1..Len(obj.kv) |->
                                IF obj.kv[i][1] = key THEN <<key, val>>
                                ELSE obj.kv[i]]]
    ELSE [obj EXCEPT !.kv = Append(@, <<key, val>>)]

\* UniValue::pushKVs: appends the pairs of another object; when either side
\* is not an object nothing is added
pushKVs(obj, other) ==
    IF obj.typ # "VOBJ" \/ other.typ # "VOBJ" THEN obj
    ELSE [obj EXCEPT !.kv = @ \o other.kv]

\* the keys of an object and the value stored under a key
Keys(obj) == {obj.kv[i][1] : i \in 1..Len(obj.kv)}
Get(obj, key) == obj.kv[CHOOSE i \in 1..Len(obj.kv) : obj.kv[i][1] = key][2]

(***************************************************************************)
(* DescribeAddressVisitor / DescribeAddress: one operator() per            *)
(* alternative of the variant                                              *)
(***************************************************************************)
DescribeAddressVisitor_CNoDestination(dest) == VOBJ

DescribeAddressVisitor_PKHash(keyID) ==
    LET obj1 == pushKV(VOBJ, "isscript", FALSE)
        obj2 == pushKV(obj1, "iswitness", FALSE)
    IN  obj2

DescribeAddressVisitor_ScriptHash(scriptID) ==
    LET obj1 == pushKV(VOBJ, "isscript", TRUE)
        obj2 == pushKV(obj1, "iswitness", FALSE)
    IN  obj2

DescribeAddressVisitor_WitnessV0KeyHash(id) ==
    LET obj1 == pushKV(VOBJ, "isscript", FALSE)
        obj2 == pushKV(obj1, "iswitness", TRUE)
        obj3 == pushKV(obj2, "witness_version", 0)
        obj4 == pushKV(obj3, "witness_program", HexStr(id.hash))
    IN  obj4

DescribeAddressVisitor_WitnessV0ScriptHash(id) ==
    LET obj1 == pushKV(VOBJ, "isscript", TRUE)
        obj2 == pushKV(obj1, "iswitness", TRUE)
        obj3 == pushKV(obj2, "witness_version", 0)
        obj4 == pushKV(obj3, "witness_program", HexStr(id.hash))
    IN  obj4

\* faulty variant: the whole 40-byte array is printed, not its first
\* id.length bytes
DescribeAddressVisitor_WitnessUnknown_WholeArray(id) ==
    LET obj1 == pushKV(VOBJ, "iswitness", TRUE)
        obj2 == pushKV(obj1, "witness_version", id.version)
        obj3 == pushKV(obj2, "witness_program", HexStr(id.program))
    IN  obj3

DescribeAddressVisitor_WitnessUnknown(id) ==
    LET obj1 == pushKV(VOBJ, "iswitness", TRUE)
        obj2 == pushKV(obj1, "witness_version", id.version)
        obj3 == pushKV(obj2, "witness_program",
                       HexStr(SubSeq(id.program, 1, id.length)))
    IN  obj3

DescribeAddressVisitor_NullData(id) ==
    LET obj1 == pushKV(VOBJ, "isscript", FALSE)
        obj2 == pushKV(obj1, "iswitness", FALSE)
    IN  obj2

\* boost::apply_visitor(DescribeAddressVisitor(), dest)
DescribeAddress(dest) ==
    CASE dest.type = "CNoDestination" -> DescribeAddressVisitor_CNoDestination(dest)
      [] dest.type = "PKHash" -> DescribeAddressVisitor_PKHash(dest)
      [] dest.type = "ScriptHash" -> DescribeAddressVisitor_ScriptHash(dest)
      [] dest.type = "WitnessV0KeyHash" -> DescribeAddressVisitor_WitnessV0KeyHash(dest)
      [] dest.type = "WitnessV0ScriptHash" ->
            DescribeAddressVisitor_WitnessV0ScriptHash(dest)
      [] dest.type = "WitnessUnknown" -> DescribeAddressVisitor_WitnessUnknown(dest)
      [] dest.type = "NullData" -> DescribeAddressVisitor_NullData(dest)

(***************************************************************************)
(* BlindingPubkeyVisitor / GetDestinationBlindingKey / IsBlindDestination  *)
(***************************************************************************)
BlindingPubkeyVisitor(dest) ==
    CASE dest.type = "CNoDestination" -> CPubKey
      [] dest.type = "PKHash" -> dest.blinding_pubkey
      [] dest.type = "ScriptHash" -> dest.blinding_pubkey
      [] dest.type = "WitnessV0KeyHash" -> dest.blinding_pubkey
      [] dest.type = "WitnessV0ScriptHash" -> dest.blinding_pubkey
      [] dest.type = "WitnessUnknown" -> dest.blinding_pubkey
      [] dest.type = "NullData" -> CPubKey

GetDestinationBlindingKey(dest) == BlindingPubkeyVisitor(dest)

IsBlindDestination(dest) == IsFullyValid(GetDestinationBlindingKey(dest))

(***************************************************************************)
(* key_io: EncodeDestination.  The address is kept as the payload that is  *)
(* handed to Base58Check / bech32: a blinded address embeds the blinding   *)
(* key in front of the hash, an address whose key is not a valid point is  *)
(* encoded without it.                                                     *)
(***************************************************************************)
EncodeDestination(dest) ==
    IF IsFullyValid(dest.blinding_pubkey)
    THEN [blinded |-> TRUE, kind |-> dest.type,
          data |-> dest.blinding_pubkey \o dest.hash]
    ELSE [blinded |-> FALSE, kind |-> dest.type, data |-> dest.hash]

(***************************************************************************)
(* DescribeBlindAddressVisitor / DescribeBlindAddress                      *)
(***************************************************************************)
DescribeBlindAddressVisitor_CNoDestination(dest) == VOBJ

\* faulty variant: the copy keeps the blinding key
DescribeBlindAddressVisitor_PKHash_KeyKept(pkhash) ==
    LET blind_pub == pkhash.blinding_pubkey
    IN  IF IsBlindDestination(pkhash)
        THEN LET obj1 == pushKV(VOBJ, "confidential_key", HexStr(blind_pub))
                 unblinded == pkhash
             IN  pushKV(obj1, "unconfidential", EncodeDestination(unblinded))
        ELSE LET obj1 == pushKV(VOBJ, "confidential_key", <<>>)
             IN  pushKV(obj1, "unconfidential", EncodeDestination(pkhash))

DescribeBlindAddressVisitor_PKHash(pkhash) ==
    LET blind_pub == pkhash.blinding_pubkey
    IN  IF IsBlindDestination(pkhash)
        THEN LET obj1 == pushKV(VOBJ, "confidential_key", HexStr(blind_pub))
                 unblinded == [pkhash EXCEPT !.blinding_pubkey = CPubKey]
             IN  pushKV(obj1, "unconfidential", EncodeDestination(unblinded))
        ELSE LET obj1 == pushKV(VOBJ, "confidential_key", <<>>)
             IN  pushKV(obj1, "unconfidential", EncodeDestination(pkhash))

DescribeBlindAddressVisitor_ScriptHash(scripthash) ==
    LET blind_pub == scripthash.blinding_pubkey
    IN  IF IsBlindDestination(scripthash)
        THEN LET obj1 == pushKV(VOBJ, "confidential_key", HexStr(blind_pub))
                 unblinded == [scripthash EXCEPT !.blinding_pubkey = CPubKey]
             IN  pushKV(obj1, "unconfidential", EncodeDestination(unblinded))
        ELSE LET obj1 == pushKV(VOBJ, "confidential_key", <<>>)
             IN  pushKV(obj1, "unconfidential", EncodeDestination(scripthash))

DescribeBlindAddressVisitor_WitnessV0KeyHash(id) ==
    LET blind_pub == id.blinding_pubkey
    IN  IF IsBlindDestination(id)
        THEN LET obj1 == pushKV(VOBJ, "confidential_key", HexStr(blind_pub))
                 unblinded == [id EXCEPT !.blinding_pubkey = CPubKey]
             IN  pushKV(obj1, "unconfidential", EncodeDestination(unblinded))
        ELSE LET obj1 == pushKV(VOBJ, "confidential_key", <<>>)
             IN  pushKV(obj1, "unconfidential", EncodeDestination(id))

DescribeBlindAddressVisitor_WitnessV0ScriptHash(id) ==
    LET blind_pub == id.blinding_pubkey
    IN  IF IsBlindDestination(id)
        THEN LET obj1 == pushKV(VOBJ, "confidential_key", HexStr(blind_pub))
                 unblinded == [id EXCEPT !.blinding_pubkey = CPubKey]
             IN  pushKV(obj1, "unconfidential", EncodeDestination(unblinded))
        ELSE LET obj1 == pushKV(VOBJ, "confidential_key", <<>>)
             IN  pushKV(obj1, "unconfidential", EncodeDestination(id))

DescribeBlindAddressVisitor_WitnessUnknown(id) == VOBJ

DescribeBlindAddressVisitor_NullData(id) == NullUniValue

\* boost::apply_visitor(DescribeBlindAddressVisitor(), dest)
DescribeBlindAddressVisitor(dest) ==
    CASE dest.type = "CNoDestination" -> DescribeBlindAddressVisitor_CNoDestination(dest)
      [] dest.type = "PKHash" -> DescribeBlindAddressVisitor_PKHash(dest)
      [] dest.type = "ScriptHash" -> DescribeBlindAddressVisitor_ScriptHash(dest)
      [] dest.type = "WitnessV0KeyHash" ->
            DescribeBlindAddressVisitor_WitnessV0KeyHash(dest)
      [] dest.type = "WitnessV0ScriptHash" ->
            DescribeBlindAddressVisitor_WitnessV0ScriptHash(dest)
      [] dest.type = "WitnessUnknown" -> DescribeBlindAddressVisitor_WitnessUnknown(dest)
      [] dest.type = "NullData" -> DescribeBlindAddressVisitor_NullData(dest)

\* faulty variant: the visitor's result is returned as it is
DescribeBlindAddress_Unwrapped(dest) == DescribeBlindAddressVisitor(dest)

DescribeBlindAddress(dest) ==
    LET ret0 == VOBJ
        ret1 == pushKVs(ret0, DescribeBlindAddressVisitor(dest))
    IN  ret1

(***************************************************************************)
(* script/standard.cpp: GetScriptForMultisig, and CScript's operator<<     *)
(***************************************************************************)
MAX_SCRIPT_ELEMENT_SIZE == 520

OP_CHECKMULTISIG == 174

\* CScript::EncodeOP_N: OP_1 .. OP_16 are the bytes 0x51 .. 0x60
EncodeOP_N(n) == 80 + n

\* CScript << std::vector<unsigned char>: a one-byte length in front of
\* fewer than OP_PUSHDATA1 (76) bytes
PushData(b) == <<Len(b)>> \o b

GetScriptForMultisig(nRequired, keys) ==
    <<EncodeOP_N(nRequired)>>
        \o Flatten([i \in 1..Len(keys) |-> PushData(keys[i])])
        \o <<EncodeOP_N(Len(keys)), OP_CHECKMULTISIG>>

(***************************************************************************)
(* CreateMultisigRedeemscript                                              *)
(***************************************************************************)
RPC_INVALID_PARAMETER == -8

\* throw JSONRPCError(code, message): the message is kept as its fixed text
\* and the numbers printed into it
JSONRPCError(code, message, numbers) ==
    [typ |-> "JSONRPCError", code |-> code, message |-> message,
     numbers |-> numbers]

\* faulty variant: the key count is compared with 16 before it is compared
\* with the threshold
CreateMultisigRedeemscript_CountFirst(required, pubkeys) ==
    IF required < 1
    THEN JSONRPCError(RPC_INVALID_PARAMETER,
            "a multisignature address must require at least one key to redeem", <<>>)
    ELSE IF Len(pubkeys) > 16
    THEN JSONRPCError(RPC_INVALID_PARAMETER,
            "Number of keys involved in the multisignature address creation > 16", <<>>)
    ELSE IF Len(pubkeys) < required
    THEN JSONRPCError(RPC_INVALID_PARAMETER,
            "not enough keys supplied", <<Len(pubkeys), required>>)
    ELSE LET result == GetScriptForMultisig(required, pubkeys)
         IN  IF Len(result) > MAX_SCRIPT_ELEMENT_SIZE
             THEN JSONRPCError(RPC_INVALID_PARAMETER,
                     "redeemScript exceeds size limit",
                     <<Len(result), MAX_SCRIPT_ELEMENT_SIZE>>)
             ELSE [typ |-> "CScript", script |-> result]

CreateMultisigRedeemscript(required, pubkeys) ==
    IF required < 1
    THEN JSONRPCError(RPC_INVALID_PARAMETER,
            "a multisignature address must require at least one key to redeem", <<>>)
    ELSE IF Len(pubkeys) < required
    THEN JSONRPCError(RPC_INVALID_PARAMETER,
            "not enough keys supplied", <<Len(pubkeys), required>>)
    ELSE IF Len(pubkeys) > 16
    THEN JSONRPCError(RPC_INVALID_PARAMETER,
            "Number of keys involved in the multisignature address creation > 16", <<>>)
    ELSE LET result == GetScriptForMultisig(required, pubkeys)
         IN  IF Len(result) > MAX_SCRIPT_ELEMENT_SIZE
             THEN JSONRPCError(RPC_INVALID_PARAMETER,
                     "redeemScript exceeds size limit",
                     <<Len(result), MAX_SCRIPT_ELEMENT_SIZE>>)
             ELSE [typ |-> "CScript", script |-> result]

\* the thresholds: every int around the range of key counts, and the two
\* ends of int
Thresholds == {-2147483647 - 1, 2147483647} \cup (-1..(MaxKeys + 1))

\* the key vectors: u uncompressed keys followed by c compressed ones
KeyVectors ==
    { [i \in 1..(u + c) |-> IF i <= u THEN UncompressedKey(i)
                                    ELSE CompressedKey(2 + (i % 2), i)] :
        u \in 0..MaxKeys, c \in 0..MaxKeys }

MultisigCalls ==
    [op : {"CreateMultisigRedeemscript"},
     required : Thresholds,
     pubkeys : {v \in KeyVectors : Len(v) <= MaxKeys}]

(***************************************************************************)
(* rpc/util.h: RPCArg, a tree of named and typed arguments                 *)
(***************************************************************************)
LeafTypes == {"STR", "STR_HEX", "NUM", "AMOUNT", "BOOL"}
InnerTypes == {"ARR", "OBJ", "OBJ_USER_KEYS"}
Type == LeafTypes \cup InnerTypes

RPCArg(name, type, inner, optional) ==
    [m_name |-> name, m_type |-> type, m_inner |-> inner, m_optional |-> optional]

\* a string a function returns, and the abort of a failed assert at a line
\* of util.cpp
Returned(str) == [typ |-> "string", str |-> str, line |-> 0]
Aborted(line) == [typ |-> "abort", str |-> <<>>, line |-> line]

RECURSIVE ToString(_), ToStringObj(_), ToStringArrLoop(_, _, _),
          ToStringObjArrLoop(_, _, _), ToStringObjLoop(_, _, _),
          ToStringObjLoop_TrailingComma(_, _, _)

\* RPCArg::ToString, case ARR: for (i : m_inner) res += i.ToString() + ","
\* from the element at index i on (counted from 1)
ToStringArrLoop(m_inner, i, res) ==
    IF i > Len(m_inner) THEN Returned(res)
    ELSE LET s == ToString(m_inner[i])
         IN  IF s.typ = "abort" THEN s
             ELSE ToStringArrLoop(m_inner, i + 1, res \o s.str \o <<",">>)

\* RPCArg::ToStringObj, case ARR: the same loop
ToStringObjArrLoop(m_inner, i, res) ==
    IF i > Len(m_inner) THEN Returned(res)
    ELSE LET s == ToString(m_inner[i])
         IN  IF s.typ = "abort" THEN s
             ELSE ToStringObjArrLoop(m_inner, i + 1, res \o s.str \o <<",">>)

\* faulty variant: a comma follows every entry, the last one too
ToStringObjLoop_TrailingComma(m_inner, i, res) ==
    IF i > Len(m_inner) THEN Returned(res)
    ELSE LET s == ToStringObj(m_inner[i])
         IN  IF s.typ = "abort" THEN s
             ELSE ToStringObjLoop_TrailingComma(m_inner, i + 1,
                                                res \o s.str \o <<",">>)

\* RPCArg::ToString, case OBJ / OBJ_USER_KEYS:
\* for (i = 0; i < size;) { res += m_inner[i].ToStringObj();
\*                          if (++i < size) res += ","; }
ToStringObjLoop(m_inner, i, res) ==
    IF i > Len(m_inner) THEN Returned(res)
    ELSE LET s == ToStringObj(m_inner[i])
         IN  IF s.typ = "abort" THEN s
             ELSE ToStringObjLoop(m_inner, i + 1,
                     res \o s.str \o (IF i < Len(m_inner) THEN <<",">> ELSE <<>>))

ToStringObj(arg) ==
    LET res == <<"\"">> \o arg.m_name \o <<"\"", ":">>
    IN  CASE arg.m_type = "STR" -> Returned(res \o <<"\"", "s", "t", "r", "\"">>)
          [] arg.m_type = "STR_HEX" -> Returned(res \o <<"\"", "h", "e", "x", "\"">>)
          [] arg.m_type = "NUM" -> Returned(res \o <<"n">>)
          [] arg.m_type = "AMOUNT" -> Returned(res \o <<"a", "m", "o", "u", "n", "t">>)
          [] arg.m_type = "BOOL" -> Returned(res \o <<"b", "o", "o", "l">>)
          [] arg.m_type = "ARR" ->
                LET r == ToStringObjArrLoop(arg.m_inner, 1, res \o <<"[">>)
                IN  IF r.typ = "abort" THEN r
                    ELSE Returned(r.str \o <<".", ".", ".", "]">>)
          [] arg.m_type \in {"OBJ", "OBJ_USER_KEYS"} -> Aborted(190)

ToString(arg) ==
    CASE arg.m_type \in {"STR_HEX", "STR"} ->
            Returned(<<"\"">> \o arg.m_name \o <<"\"">>)
      [] arg.m_type \in {"NUM", "AMOUNT", "BOOL"} -> Returned(arg.m_name)
      [] arg.m_type \in {"OBJ", "OBJ_USER_KEYS"} ->
            LET r == ToStringObjLoop(arg.m_inner, 1, <<>>)
            IN  IF r.typ = "abort" THEN r
                ELSE IF arg.m_type = "OBJ"
                THEN Returned(<<"{">> \o r.str \o <<"}">>)
                ELSE Returned(<<"{">> \o r.str \o <<",", ".", ".", ".", "}">>)
      [] arg.m_type = "ARR" ->
            LET r == ToStringArrLoop(arg.m_inner, 1, <<>>)
            IN  IF r.typ = "abort" THEN r
                ELSE Returned(<<"[">> \o r.str \o <<".", ".", ".", "]">>)

(***************************************************************************)
(* RPCHelpMan::ToString                                                    *)
(***************************************************************************)
RECURSIVE RPCHelpMan_ToStringLoop(_, _, _, _),
          RPCHelpMan_ToStringLoop_EveryOptional(_, _, _, _),
          RPCHelpMan_ToStringLoop_NoAssert(_, _, _, _)

\* faulty variant: "( " is put in front of every optional argument
RPCHelpMan_ToStringLoop_EveryOptional(m_args, i, str, is_optional) ==
    IF i > Len(m_args) THEN [ret |-> Returned(str), is_optional |-> is_optional]
    ELSE LET arg == m_args[i]
             ret1 == str \o <<" ">>
         IN  IF ~arg.m_optional /\ is_optional
             THEN [ret |-> Aborted(157), is_optional |-> is_optional]
             ELSE LET ret2 == IF arg.m_optional
                              THEN ret1 \o <<"(", " ">> ELSE ret1
                      s == ToString(arg)
                  IN  IF s.typ = "abort"
                      THEN [ret |-> s, is_optional |-> is_optional]
                      ELSE RPCHelpMan_ToStringLoop_EveryOptional(m_args, i + 1,
                               ret2 \o s.str, is_optional \/ arg.m_optional)

\* faulty variant: the order of the arguments is not checked
RPCHelpMan_ToStringLoop_NoAssert(m_args, i, str, is_optional) ==
    IF i > Len(m_args) THEN [ret |-> Returned(str), is_optional |-> is_optional]
    ELSE LET arg == m_args[i]
             ret1 == str \o <<" ">>
             ret2 == IF arg.m_optional /\ ~is_optional
                     THEN ret1 \o <<"(", " ">> ELSE ret1
             s == ToString(arg)
         IN  IF s.typ = "abort"
             THEN [ret |-> s, is_optional |-> is_optional]
             ELSE RPCHelpMan_ToStringLoop_NoAssert(m_args, i + 1,
                      ret2 \o s.str, is_optional \/ arg.m_optional)

\* for (arg : m_args) { ... }, from the argument at index i on; str and
\* is_optional are the locals ret and is_optional
RPCHelpMan_ToStringLoop(m_args, i, str, is_optional) ==
    IF i > Len(m_args) THEN [ret |-> Returned(str), is_optional |-> is_optional]
    ELSE LET arg == m_args[i]
             ret1 == str \o <<" ">>
         IN  IF ~arg.m_optional /\ is_optional
             THEN [ret |-> Aborted(157), is_optional |-> is_optional]
             ELSE LET ret2 == IF arg.m_optional /\ ~is_optional
                              THEN ret1 \o <<"(", " ">> ELSE ret1
                      s == ToString(arg)
                  IN  IF s.typ = "abort"
                      THEN [ret |-> s, is_optional |-> is_optional]
                      ELSE RPCHelpMan_ToStringLoop(m_args, i + 1,
                               ret2 \o s.str, is_optional \/ arg.m_optional)

RPCHelpMan_ToString(m_name, m_args) ==
    LET loop == RPCHelpMan_ToStringLoop(m_args, 1, m_name, FALSE)
    IN  IF loop.ret.typ = "abort" THEN loop.ret
        ELSE Returned(loop.ret.str
                        \o (IF loop.is_optional THEN <<" ", ")">> ELSE <<>>)
                        \o <<"\n">>)

\* the names of arguments and of commands
ArgNames == {<<"t", "x", "i", "d">>, <<"n">>}
CommandNames == {<<"n", "a", "m", "e">>}

RECURSIVE ArgsOfSize(_), InnersOfSize(_), Named(_, _)

\* the sequences of RPCArg trees that have n nodes together
InnersOfSize(n) ==
    IF n = 0 THEN {<<>>}
    ELSE UNION { { <<t>> \o f : t \in ArgsOfSize(k), f \in InnersOfSize(n - k) } :
                 k \in 1..n }

\* the RPCArg trees of n nodes, not yet named: a node of any type when it
\* has no inner argument, of an inner type when it has some
ArgsOfSize(n) ==
    IF n = 1
    THEN { RPCArg(<<>>, type, <<>>, FALSE) : type \in Type }
    ELSE { RPCArg(<<>>, type, inner, FALSE) :
             type \in InnerTypes, inner \in InnersOfSize(n - 1) }

NameSuffixes == <<"a", "b", "c", "d", "e", "f", "g", "h">>

\* the tree with the name given to its root; the i-th inner argument of a
\* node is named after the node, with the i-th suffix appended
Named(arg, name) ==
    [arg EXCEPT !.m_name = name,
                !.m_inner = [i \in 1..Len(arg.m_inner) |->
                                Named(arg.m_inner[i], name \o <<NameSuffixes[i]>>)]]

RPCArgCalls ==
    [op : {"RPCArg::ToString"},
     arg : { Named(t, name) :
               t \in UNION { ArgsOfSize(n) : n \in 1..MaxNodes },
               name \in ArgNames }]

\* the arguments of the commands: plain ones, nested ones, and one whose
\* object entry is itself an object
HelpArgShapes ==
    { RPCArg(<<"t", "x", "i", "d">>, "NUM", <<>>, FALSE),
      RPCArg(<<"a", "m", "o", "u", "n", "t">>, "AMOUNT", <<>>, FALSE),
      RPCArg(<<"k", "e", "y", "s">>, "ARR",
             <<RPCArg(<<"k", "e", "y">>, "STR", <<>>, FALSE)>>, FALSE),
      RPCArg(<<"o", "p", "t", "s">>, "OBJ_USER_KEYS",
             <<RPCArg(<<"f", "e", "e">>, "NUM", <<>>, FALSE)>>, FALSE),
      RPCArg(<<"b", "a", "d">>, "OBJ",
             <<RPCArg(<<"i", "n">>, "OBJ", <<>>, FALSE)>>, FALSE) }

HelpArgs ==
    { [a EXCEPT !.m_optional = o] : a \in HelpArgShapes, o \in BOOLEAN }

RECURSIVE ArgLists(_)
\* the sequences of at most n arguments
ArgLists(n) ==
    IF n = 0 THEN {<<>>}
    ELSE ArgLists(n - 1)
            \cup { Append(l, a) : l \in {x \in ArgLists(n - 1) : Len(x) = n - 1},
                                  a \in HelpArgs }

RPCHelpManCalls ==
    [op : {"RPCHelpMan::ToString"},
     m_name : CommandNames,
     m_args : ArgLists(MaxArgs)]

(***************************************************************************)
(* asset.h, assetsdir.h, amount.h, core_io: what AmountMapToUniv uses      *)
(***************************************************************************)
COIN == 100000000

\* CAsset: a 32-byte identifier; the null asset is all zero
NullAsset == Fill(32, 0)
policyAsset == <<35>> \o Fill(31, 15)
AssetA == <<18, 52>> \o Fill(30, 0)
AssetB == Fill(31, 250) \o <<206>>
Assets == {NullAsset, policyAsset, AssetA, AssetB}

\* CAsset::IsNull
IsNull(asset) == \A i \in 1..Len(asset) : asset[i] = 0

RECURSIVE Reverse(_)
Reverse(s) == IF s = <<>> THEN <<>> ELSE Reverse(Tail(s)) \o <<Head(s)>>

\* CAsset::GetHex (uint256::GetHex): the bytes in reverse order, in hex
GetHex(asset) == HexStr(Reverse(asset))

RECURSIVE Less(_, _)
\* operator< of CAsset: the byte-wise comparison of uint256
Less(a, b) ==
    /\ a # <<>>
    /\ \/ Head(a) < Head(b)
       \/ Head(a) = Head(b) /\ Less(Tail(a), Tail(b))

\* the labels of the registry; <<>> is the label of an unregistered asset
BitcoinLabel == <<"b", "i", "t", "c", "o", "i", "n">>
GoldLabel == <<"g", "o", "l", "d">>

\* gAssetsDir: the policy asset is registered at start-up; other assets are
\* registered by configuration, each under a label of its own
AssetsDirs ==
    { [a \in Assets |-> IF a = policyAsset THEN BitcoinLabel ELSE <<>>],
      [a \in Assets |-> IF a = policyAsset THEN BitcoinLabel
                        ELSE IF a = AssetA THEN GoldLabel ELSE <<>>] }

\* CAssetsDir::GetLabel
GetLabel(dir, asset) == dir[asset]

\* GetAssetFromString: the asset registered under the label, else the asset
\* the string is the hex identifier of
GetAssetFromString(dir, strasset) ==
    IF \E a \in Assets : dir[a] = strasset
    THEN CHOOSE a \in Assets : dir[a] = strasset
    ELSE CHOOSE a \in Assets : GetHex(a) = strasset

Digits == <<"0", "1", "2", "3", "4", "5", "6", "7", "8", "9">>

RECURSIVE Decimal(_)
\* printf's %d of a non-negative number
Decimal(n) ==
    IF n < 10 THEN <<Digits[n + 1]>>
    ELSE Decimal(n \div 10) \o <<Digits[(n % 10) + 1]>>

RECURSIVE ZeroPadded(_, _)
\* printf's %0<width>d of a non-negative number
ZeroPadded(n, width) ==
    IF Len(Decimal(n)) >= width THEN Decimal(n)
    ELSE <<"0">> \o ZeroPadded(n, width - 1)

\* ValueFromAmount: strprintf("%s%d.%08d", sign ? "-" : "", quotient, remainder)
ValueFromAmount(amount) ==
    LET sign == amount < 0
        n_abs == IF sign THEN -amount ELSE amount
        quotient == n_abs \div COIN
        remainder == n_abs % COIN
    IN  [typ |-> "VNUM",
         val |-> (IF sign THEN <<"-">> ELSE <<>>)
                    \o Decimal(quotient) \o <<".">> \o ZeroPadded(remainder, 8)]

\* CAmountMap (std::map<CAsset, CAmount>): operator[] inserts the amount 0
\* under a key that is absent
Subscript(map, key) ==
    [a \in (DOMAIN map) \cup {key} |-> IF a \in DOMAIN map THEN map[a] ELSE 0]

RECURSIVE Ascending(_)
\* the keys of a map in the order std::map iterates over them
Ascending(keys) ==
    IF keys = {} THEN <<>>
    ELSE LET first == CHOOSE a \in keys : \A b \in keys \ {a} : Less(a, b)
         IN  <<first>> \o Ascending(keys \ {first})

(***************************************************************************)
(* AmountMapToUniv                                                         *)
(***************************************************************************)
RECURSIVE AmountMapToUniv_Loop(_, _, _, _, _), AmountMapToUniv_Loop_NullKept(_, _, _, _, _)

\* faulty variant: the null asset is reported like any other
AmountMapToUniv_Loop_NullKept(balance, order, i, obj, gAssetsDir) ==
    IF i > Len(order) THEN obj
    ELSE LET first == order[i]
             second == balance[first]
             label0 == GetLabel(gAssetsDir, first)
             label == IF label0 = <<>> THEN GetHex(first) ELSE label0
         IN  AmountMapToUniv_Loop_NullKept(balance, order, i + 1,
                  pushKV(obj, label, ValueFromAmount(second)), gAssetsDir)

\* for (it = balance.begin(); it != balance.end(); ++it) { ... }, from the
\* i-th entry on; order is the sequence of keys the iterator goes through
AmountMapToUniv_Loop(balance, order, i, obj, gAssetsDir) ==
    IF i > Len(order) THEN obj
    ELSE LET first == order[i]
             second == balance[first]
         IN  IF IsNull(first)
             THEN AmountMapToUniv_Loop(balance, order, i + 1, obj, gAssetsDir)
             ELSE LET label0 == GetLabel(gAssetsDir, first)
                      label == IF label0 = <<>> THEN GetHex(first) ELSE label0
                  IN  AmountMapToUniv_Loop(balance, order, i + 1,
                          pushKV(obj, label, ValueFromAmount(second)), gAssetsDir)

\* faulty variant: the amount of the policy asset is returned in both modes
AmountMapToUniv_OneAsset_PolicyOnly(balance, strasset, g_con_elementsmode, gAssetsDir) ==
    ValueFromAmount(Subscript(balance, policyAsset)[policyAsset])

\* the body of if (!g_con_elementsmode || strasset != "")
AmountMapToUniv_OneAsset(balance, strasset, g_con_elementsmode, gAssetsDir) ==
    IF g_con_elementsmode
    THEN LET asset == GetAssetFromString(gAssetsDir, strasset)
         IN  ValueFromAmount(Subscript(balance, asset)[asset])
    ELSE ValueFromAmount(Subscript(balance, policyAsset)[policyAsset])

\* the globals g_con_elementsmode and gAssetsDir are passed as arguments
AmountMapToUniv(balanceOrig, strasset, g_con_elementsmode, gAssetsDir) ==
    LET balance == Subscript(balanceOrig, policyAsset)
    IN  IF ~g_con_elementsmode \/ strasset # <<>>
        THEN AmountMapToUniv_OneAsset(balance, strasset, g_con_elementsmode,
                                      gAssetsDir)
        ELSE AmountMapToUniv_Loop(balance, Ascending(DOMAIN balance), 1, VOBJ,
                                  gAssetsDir)

\* amounts: none, a few satoshi, more than a coin, a negative one
Amounts == {0, 5, 300000007, -150000001}

CAmountMap == UNION { [keys -> Amounts] : keys \in SUBSET Assets }

\* the strings that name an asset under a registry: the labels in use and
\* the hex identifiers of the assets that are not null
NamesOf(dir) ==
    { dir[a] : a \in {x \in Assets : dir[x] # <<>>} }
        \cup { GetHex(a) : a \in {x \in Assets : ~IsNull(x)} }

\* a string that names no asset
UnknownName == <<"n", "o", "p", "e">>

\* in multi-asset mode a filter is empty or names an asset; in single-asset
\* mode it is any string
AmountMapCalls ==
    { [op |-> "AmountMapToUniv", balanceOrig |-> m, strasset |-> f,
       g_con_elementsmode |-> e, gAssetsDir |-> d] :
         m \in CAmountMap,
         f \in {<<>>, BitcoinLabel, GoldLabel, GetHex(AssetA), GetHex(AssetB),
                GetHex(policyAsset), UnknownName},
         e \in BOOLEAN,
         d \in AssetsDirs }

(***************************************************************************)
(* The calls                                                               *)
(***************************************************************************)
DestinationCalls ==
    [op : {"DescribeAddress", "DescribeBlindAddress", "IsBlindDestination"},
     dest : CTxDestination]

CallCreateMultisigRedeemscript ==
    /\ pc = "start"
    /\ call.op = "CreateMultisigRedeemscript"
    /\ ret' = CreateMultisigRedeemscript(call.required, call.pubkeys)
    /\ pc' = "done"
    /\ UNCHANGED call

CallRPCHelpMan_ToString ==
    /\ pc = "start"
    /\ call.op = "RPCHelpMan::ToString"
    /\ ret' = RPCHelpMan_ToString(call.m_name, call.m_args)
    /\ pc' = "done"
    /\ UNCHANGED call

CallRPCArg_ToString ==
    /\ pc = "start"
    /\ call.op = "RPCArg::ToString"
    /\ ret' = ToString(call.arg)
    /\ pc' = "done"
    /\ UNCHANGED call

CallAmountMapToUniv ==
    /\ pc = "start"
    /\ call.op = "AmountMapToUniv"
    /\ ret' = AmountMapToUniv(call.balanceOrig, call.strasset,
                              call.g_con_elementsmode, call.gAssetsDir)
    /\ pc' = "done"
    /\ UNCHANGED call

CallDescribeAddress ==
    /\ pc = "start"
    /\ call.op = "DescribeAddress"
    /\ ret' = DescribeAddress(call.dest)
    /\ pc' = "done"
    /\ UNCHANGED call

CallDescribeBlindAddress ==
    /\ pc = "start"
    /\ call.op = "DescribeBlindAddress"
    /\ ret' = DescribeBlindAddress(call.dest)
    /\ pc' = "done"
    /\ UNCHANGED call

CallIsBlindDestination ==
    /\ pc = "start"
    /\ call.op = "IsBlindDestination"
    /\ ret' = [typ |-> "bool", val |-> IsBlindDestination(call.dest)]
    /\ pc' = "done"
    /\ UNCHANGED call

Init ==
    /\ pc = "start"
    /\ ret = NoRet
    /\ call \in DestinationCalls \cup MultisigCalls \cup RPCArgCalls
                    \cup RPCHelpManCalls
                    \cup { c \in AmountMapCalls :
                             c.g_con_elementsmode /\ c.strasset # <<>>
                                => c.strasset \in NamesOf(c.gAssetsDir) }

Next ==
    \/ CallCreateMultisigRedeemscript
    \/ CallDescribeAddress
    \/ CallRPCHelpMan_ToString
    \/ CallRPCArg_ToString
    \/ CallAmountMapToUniv
    \/ CallDescribeBlindAddress
    \/ CallIsBlindDestination

Spec == Init /\ [][Next]_vars

(***************************************************************************)
(* Properties                                                              *)
(***************************************************************************)
\* the call of the function named op has returned or failed
Done(op) == pc = "done" /\ call.op = op

\* the object has exactly these fields, each once
HasFields(obj, fields) ==
    /\ obj.typ = "VOBJ"
    /\ Keys(obj) = fields
    /\ Len(obj.kv) = Cardinality(fields)

\* the value of a hex digit, and a string being the hex form of bytes
HexValue(c) == (CHOOSE i \in 1..16 : hexmap[i] = c) - 1
IsHexOf(str, bytes) ==
    /\ Len(str) = 2 * Len(bytes)
    /\ \A i \in 1..Len(bytes) :
          16 * HexValue(str[2 * i - 1]) + HexValue(str[2 * i]) = bytes[i]

RECURSIVE SumOfSizes(_)
SumOfSizes(keys) ==
    IF keys = <<>> THEN 0 ELSE Len(Head(keys)) + SumOfSizes(Tail(keys))

\* the length of the multisig script of the keys: the two numbers, the
\* opcode, and a length byte in front of every key
ScriptSize(keys) == 3 + Len(keys) + SumOfSizes(keys)

\* the checks of build() that fail on an input, by their number
FailingChecks(threshold, keys) ==
    {c \in 1..4 : \/ c = 1 /\ threshold < 1
                  \/ c = 2 /\ Len(keys) < threshold
                  \/ c = 3 /\ Len(keys) > 16
                  \/ c = 4 /\ ScriptSize(keys) > 520}

CheckMessage ==
    <<"a multisignature address must require at least one key to redeem",
      "not enough keys supplied",
      "Number of keys involved in the multisignature address creation > 16",
      "redeemScript exceeds size limit">>

\* C1: CreateMultisigRedeemscript reports the first failing check of
\* (1) threshold < 1, (2) fewer keys than the threshold, (3) more than 16
\* keys, (4) script longer than MAX_SCRIPT_ELEMENT_SIZE, as an invalid
\* parameter error without a script; it returns a script exactly when no
\* check fails, and then 1 <= threshold <= keys <= 16 and the script is
\* within the limit.
C1_FirstFailingCheck ==
    Done("CreateMultisigRedeemscript") =>
        LET failing == FailingChecks(call.required, call.pubkeys)
        IN  IF failing = {}
            THEN /\ ret.typ = "CScript"
                 /\ 1 <= call.required
                 /\ call.required <= Len(call.pubkeys)
                 /\ Len(call.pubkeys) <= 16
                 /\ Len(ret.script) = ScriptSize(call.pubkeys)
                 /\ Len(ret.script) <= 520
            ELSE /\ ret.typ = "JSONRPCError"
                 /\ ret.code = -8
                 /\ \E c \in failing :
                       /\ \A other \in failing : c <= other
                       /\ ret.message = CheckMessage[c]

\* threshold 17 with 16 keys is reported as "not enough keys"
C1_Witness ==
    /\ Done("CreateMultisigRedeemscript")
    /\ call.required = 17
    /\ Len(call.pubkeys) = 16
    /\ ret.typ = "JSONRPCError"
    /\ ret.message = "not enough keys supplied"

\* two destinations that differ in nothing but the blinding key
SameButBlindingKey(d, e) ==
    /\ d.type = e.type
    /\ d.type \notin {"CNoDestination", "NullData"} =>
          [e EXCEPT !.blinding_pubkey = d.blinding_pubkey] = d

\* C2: DescribeAddress returns the record of its alternative: nothing for
\* CNoDestination; isscript and iswitness for PKHash (false, false),
\* ScriptHash (true, false) and NullData (false, false); these two with
\* witness_version 0 and the hex of the hash for WitnessV0KeyHash (false,
\* true) and WitnessV0ScriptHash (true, true); iswitness true, the version
\* and the hex of the program, without isscript, for WitnessUnknown.  There
\* is no other field and the blinding key has no influence.
C2_DescribeTable ==
    Done("DescribeAddress") =>
        LET d == call.dest
            plain == {"isscript", "iswitness"}
            witness == {"isscript", "iswitness", "witness_version", "witness_program"}
        IN  /\ CASE d.type = "CNoDestination" -> HasFields(ret, {})
              [] d.type \in {"PKHash", "NullData"} ->
                    /\ HasFields(ret, plain)
                    /\ Get(ret, "isscript") = FALSE
                    /\ Get(ret, "iswitness") = FALSE
              [] d.type = "ScriptHash" ->
                    /\ HasFields(ret, plain)
                    /\ Get(ret, "isscript") = TRUE
                    /\ Get(ret, "iswitness") = FALSE
              [] d.type \in {"WitnessV0KeyHash", "WitnessV0ScriptHash"} ->
                    /\ HasFields(ret, witness)
                    /\ Get(ret, "isscript") = (d.type = "WitnessV0ScriptHash")
                    /\ Get(ret, "iswitness") = TRUE
                    /\ Get(ret, "witness_version") = 0
                    /\ IsHexOf(Get(ret, "witness_program"), d.hash)
              [] d.type = "WitnessUnknown" ->
                    /\ HasFields(ret, {"iswitness", "witness_version", "witness_program"})
                    /\ Get(ret, "iswitness") = TRUE
                    /\ Get(ret, "witness_version") = d.version
                    /\ IsHexOf(Get(ret, "witness_program"),
                               [i \in 1..d.length |-> d.program[i]])
            /\ \A e \in CTxDestination :
                  SameButBlindingKey(d, e) => DescribeAddress(e) = ret

\* an unknown witness version 3 whose program is shorter than the array
C2_Witness ==
    /\ Done("DescribeAddress")
    /\ call.dest.type = "WitnessUnknown"
    /\ call.dest.version = 3
    /\ call.dest.length = 2
    /\ call.dest.program[40] # 0
    /\ Get(ret, "witness_program") = <<"5", "1", "5", "2">>

BlindingCapable == {"PKHash", "ScriptHash", "WitnessV0KeyHash", "WitnessV0ScriptHash"}

\* what C3 says of the description r of the blinding-capable destination d
BlindDescriptionOf(d, r) ==
    /\ HasFields(r, {"confidential_key", "unconfidential"})
    /\ IF IsFullyValid(d.blinding_pubkey)
       THEN /\ IsHexOf(Get(r, "confidential_key"), d.blinding_pubkey)
            /\ Get(r, "unconfidential") =
                 EncodeDestination([type |-> d.type, hash |-> d.hash,
                                    blinding_pubkey |-> <<>>])
       ELSE /\ Get(r, "confidential_key") = <<>>
            /\ Get(r, "unconfidential") = EncodeDestination(d)

\* C3: for a PKHash, ScriptHash, WitnessV0KeyHash or WitnessV0ScriptHash,
\* DescribeBlindAddress gives, when the blinding key is a valid point, the
\* hex of the key and the encoding of the same alternative and hash with
\* the empty key, and otherwise the empty confidential_key and the
\* encoding of the destination as it is; the call leaves the destination
\* as it was.
C3_BlindDescription ==
    [][ (pc' = "done" /\ call.op = "DescribeBlindAddress"
            /\ call.dest.type \in BlindingCapable)
          => (call' = call /\ BlindDescriptionOf(call.dest, ret')) ]_vars

\* a blinded PKHash has been described
C3_Witness ==
    /\ Done("DescribeBlindAddress")
    /\ call.dest.type = "PKHash"
    /\ IsFullyValid(call.dest.blinding_pubkey)
    /\ Len(Get(ret, "confidential_key")) = 66
    /\ Get(ret, "unconfidential").blinded = FALSE

\* C4 as stated: an empty object for CNoDestination and WitnessUnknown, a
\* null result for NullData.
C4_NullForNullData ==
    Done("DescribeBlindAddress") =>
        /\ call.dest.type \in {"CNoDestination", "WitnessUnknown"} =>
              HasFields(ret, {})
        /\ call.dest.type = "NullData" => ret.typ = "VNULL"

\* C4, amended: DescribeBlindAddress returns an empty object for
\* CNoDestination, for WitnessUnknown and for NullData alike; the null
\* value of the visitor does not leave the function.
C4_EmptyObject ==
    Done("DescribeBlindAddress") =>
        (call.dest.type \in {"CNoDestination", "WitnessUnknown", "NullData"}
            => HasFields(ret, {}))

\* NullData has been described
C4_Witness ==
    /\ Done("DescribeBlindAddress")
    /\ call.dest.type = "NullData"
    /\ DescribeBlindAddressVisitor(call.dest).typ = "VNULL"
    /\ ret.typ = "VOBJ"

\* C10: IsBlindDestination holds of a destination exactly when
\* DescribeBlindAddress reports a confidential_key that is not empty.
C10_BlindAgreement ==
    Done("DescribeBlindAddress") =>
        (IsBlindDestination(call.dest)
            <=> /\ "confidential_key" \in Keys(ret)
                /\ Get(ret, "confidential_key") # <<>>)

\* the amount a map holds of an asset; an asset it lacks counts as 0
AmountOf(map, asset) == IF asset \in DOMAIN map THEN map[asset] ELSE 0

\* the assets a filter names under a registry, by label or by hex identifier
NamedBy(dir, filter) ==
    {a \in Assets : ~IsNull(a) /\ (dir[a] = filter \/ GetHex(a) = filter)}

RECURSIVE DecimalValue(_)
\* the number a string of decimal digits denotes
DecimalValue(str) ==
    IF str = <<>> THEN 0
    ELSE 10 * DecimalValue(SubSeq(str, 1, Len(str) - 1))
            + (CHOOSE d \in 0..9 : Digits[d + 1] = str[Len(str)])

\* the JSON number v is the amount: an optional sign, the coins, a point
\* and eight digits of satoshi
IsAmount(v, amount) ==
    /\ v.typ = "VNUM"
    /\ LET negative == v.val[1] = "-"
           body == IF negative THEN Tail(v.val) ELSE v.val
           point == Len(body) - 8
       IN  /\ point >= 2
           /\ body[point] = "."
           /\ \A i \in 1..Len(body) : i # point => body[i] \in Range(Digits)
           /\ (IF negative THEN -1 ELSE 1)
                 * (DecimalValue(SubSeq(body, 1, point - 1)) * 100000000
                      + DecimalValue(SubSeq(body, point + 1, Len(body))))
              = amount
           /\ negative => amount < 0

\* C5 as stated: when multi-asset mode is off or the filter is not empty,
\* AmountMapToUniv returns one amount: that of the asset the filter names
\* when the filter is not empty, in either mode, and that of the policy
\* asset when it is empty.
C5_FilterInEitherMode ==
    (Done("AmountMapToUniv") /\ (~call.g_con_elementsmode \/ call.strasset # <<>>)) =>
        IF call.strasset # <<>>
        THEN \A a \in NamedBy(call.gAssetsDir, call.strasset) :
                IsAmount(ret, AmountOf(call.balanceOrig, a))
        ELSE IsAmount(ret, AmountOf(call.balanceOrig, policyAsset))

\* C5, amended: when multi-asset mode is off or the filter is not empty,
\* AmountMapToUniv returns one amount: in multi-asset mode that of the asset
\* the filter names, in single-asset mode that of the policy asset whatever
\* the filter is; an asset the map lacks counts as 0.
C5_OneAmount ==
    (Done("AmountMapToUniv") /\ (~call.g_con_elementsmode \/ call.strasset # <<>>)) =>
        IF call.g_con_elementsmode
        THEN /\ NamedBy(call.gAssetsDir, call.strasset) # {}
             /\ \A a \in NamedBy(call.gAssetsDir, call.strasset) :
                   IsAmount(ret, AmountOf(call.balanceOrig, a))
        ELSE /\ IsAmount(ret, AmountOf(call.balanceOrig, policyAsset))
             /\ (call.balanceOrig = <<>> /\ call.strasset = <<>>) =>
                   ret.val = <<"0", ".", "0", "0", "0", "0", "0", "0", "0", "0">>

\* in single-asset mode a filter names an asset whose amount is not the
\* policy asset's, and the policy asset's amount is returned
C5_Witness ==
    /\ Done("AmountMapToUniv")
    /\ ~call.g_con_elementsmode
    /\ call.strasset = GoldLabel
    /\ call.gAssetsDir[AssetA] = GoldLabel
    /\ AmountOf(call.balanceOrig, AssetA) = 5
    /\ AmountOf(call.balanceOrig, policyAsset) = -150000001
    /\ ret.val = <<"-", "1", ".", "5", "0", "0", "0", "0", "0", "0", "1">>

\* what C6 says of the mapping r returned for the call c
AllAssetsOf(c, r) ==
    LET shown == {a \in (DOMAIN c.balanceOrig) \cup {policyAsset} : ~IsNull(a)}
        LabelOf(a) == IF c.gAssetsDir[a] # <<>> THEN c.gAssetsDir[a] ELSE GetHex(a)
    IN  /\ r.typ = "VOBJ"
        /\ Keys(r) = {LabelOf(a) : a \in shown}
        /\ Len(r.kv) = Cardinality(shown)
        /\ \A a \in shown : IsAmount(Get(r, LabelOf(a)), AmountOf(c.balanceOrig, a))

\* C6: in multi-asset mode with an empty filter AmountMapToUniv returns one
\* entry for every asset of the map and for the policy asset (amount 0 when
\* the map lacks it), none for the null asset, each under the registry
\* label, or under the hex identifier when there is no label, with the
\* amount of the map; the caller's map is left as it was.
C6_AllAssets ==
    [][ (pc' = "done" /\ call.op = "AmountMapToUniv"
            /\ call.g_con_elementsmode /\ call.strasset = <<>>)
          => (call' = call /\ AllAssetsOf(call, ret')) ]_vars

\* a map with the null asset and an unregistered asset and without the
\* policy asset has been presented
C6_Witness ==
    /\ Done("AmountMapToUniv")
    /\ call.g_con_elementsmode
    /\ call.strasset = <<>>
    /\ DOMAIN call.balanceOrig = {NullAsset, AssetB}
    /\ Keys(ret) = {BitcoinLabel, GetHex(AssetB)}
    /\ Get(ret, BitcoinLabel).val = <<"0", ".", "0", "0", "0", "0", "0", "0", "0", "0">>

\* every argument after the first optional one is optional
WellOrdered(args) ==
    \A i, j \in 1..Len(args) : (i < j /\ args[i].m_optional) => args[j].m_optional

\* the text C7 describes for a command name and a well-ordered list of
\* arguments that all render
HelpText(name, args) ==
    LET optional == {i \in 1..Len(args) : args[i].m_optional}
        Piece(i) == <<" ">>
                      \o (IF i \in optional /\ \A j \in optional : i <= j
                          THEN <<"(", " ">> ELSE <<>>)
                      \o ToString(args[i]).str
    IN  name \o Flatten([i \in 1..Len(args) |-> Piece(i)])
             \o (IF optional # {} THEN <<" ", ")">> ELSE <<>>)
             \o <<"\n">>

\* C7: for a well-ordered list RPCHelpMan::ToString gives the name, then
\* every argument after a space, "( " once in front of the first optional
\* argument, " )" once after the last argument when there is an optional
\* one, and a newline; without an optional argument there is no
\* parenthesis.  An argument that has no rendering leaves the list without
\* one.
C7_HelpText ==
    (Done("RPCHelpMan::ToString") /\ WellOrdered(call.m_args)) =>
        IF \A i \in 1..Len(call.m_args) : ToString(call.m_args[i]).typ = "string"
        THEN /\ ret = Returned(HelpText(call.m_name, call.m_args))
             /\ (\A i \in 1..Len(call.m_args) : ~call.m_args[i].m_optional)
                    => Range(ret.str) \cap {"(", ")"} = {}
        ELSE ret.typ = "abort"

\* "name txid ( amount )\n"
C7_Witness ==
    /\ Done("RPCHelpMan::ToString")
    /\ Len(call.m_args) = 2
    /\ call.m_args[1].m_name = <<"t", "x", "i", "d">>
    /\ ~call.m_args[1].m_optional
    /\ call.m_args[2].m_name = <<"a", "m", "o", "u", "n", "t">>
    /\ call.m_args[2].m_optional
    /\ ret.str = <<"n", "a", "m", "e", " ", "t", "x", "i", "d", " ", "(", " ",
                   "a", "m", "o", "u", "n", "t", " ", ")", "\n">>

\* C8 as stated: an RPCHelpMan whose list has a required argument after an
\* optional one does not come into existence: its construction aborts.
C8_AbortOnConstruction ==
    (call.op = "RPCHelpMan::ToString" /\ ~WellOrdered(call.m_args)) =>
        ret.typ = "abort"

\* C8, amended: rendering (RPCHelpMan::ToString) a list that has a required
\* argument after an optional one aborts and yields no help text; the check
\* is part of the rendering, a list can be constructed without it.  A
\* well-ordered list never fails the check.
C8_AbortOnRender ==
    Done("RPCHelpMan::ToString") =>
        /\ ~WellOrdered(call.m_args) => (ret.typ = "abort" /\ ret.str = <<>>)
        /\ WellOrdered(call.m_args) => ret.line # 157

\* [optional, required] has been rendered and the assert has failed
C8_Witness ==
    /\ Done("RPCHelpMan::ToString")
    /\ Len(call.m_args) = 2
    /\ call.m_args[1].m_optional
    /\ ~call.m_args[2].m_optional
    /\ ret = Aborted(157)

RECURSIVE Join(_, _)
\* the strings with the separator between them
Join(strs, sep) ==
    IF strs = <<>> THEN <<>>
    ELSE IF Len(strs) = 1 THEN strs[1]
    ELSE strs[1] \o sep \o Join(Tail(strs), sep)

RECURSIVE Rendering(_, _), ObjEntry(_, _), ArrBody(_, _)

\* the inside of the brackets of an array: as C9 states it (joined), the
\* renderings joined by "," and then ",..."; as amended, every rendering
\* followed by "," and then "..."
ArrBody(inner, joined) ==
    LET parts == [i \in 1..Len(inner) |-> Rendering(inner[i], joined).str]
    IN  IF joined THEN Join(parts, <<",">>) \o <<",", ".", ".", ".">>
        ELSE Flatten([i \in 1..Len(parts) |-> parts[i] \o <<",">>])
                \o <<".", ".", ".">>

\* renderObjEntry
ObjEntry(arg, joined) ==
    LET key == <<"\"">> \o arg.m_name \o <<"\"", ":">>
    IN  CASE arg.m_type = "STR_HEX" -> Returned(key \o <<"\"", "h", "e", "x", "\"">>)
          [] arg.m_type = "STR" -> Returned(key \o <<"\"", "s", "t", "r", "\"">>)
          [] arg.m_type = "NUM" -> Returned(key \o <<"n">>)
          [] arg.m_type = "AMOUNT" -> Returned(key \o <<"a", "m", "o", "u", "n", "t">>)
          [] arg.m_type = "BOOL" -> Returned(key \o <<"b", "o", "o", "l">>)
          [] arg.m_type = "ARR" ->
                IF \E i \in 1..Len(arg.m_inner) :
                      Rendering(arg.m_inner[i], joined).typ = "abort"
                THEN Aborted(190)
                ELSE Returned(key \o <<"[">> \o ArrBody(arg.m_inner, joined) \o <<"]">>)
          [] arg.m_type \in {"OBJ", "OBJ_USER_KEYS"} -> Aborted(190)

\* render
Rendering(arg, joined) ==
    CASE arg.m_type \in {"STR", "STR_HEX"} ->
            Returned(<<"\"">> \o arg.m_name \o <<"\"">>)
      [] arg.m_type \in {"NUM", "AMOUNT", "BOOL"} -> Returned(arg.m_name)
      [] arg.m_type = "ARR" ->
            IF \E i \in 1..Len(arg.m_inner) :
                  Rendering(arg.m_inner[i], joined).typ = "abort"
            THEN Aborted(190)
            ELSE Returned(<<"[">> \o ArrBody(arg.m_inner, joined) \o <<"]">>)
      [] arg.m_type \in {"OBJ", "OBJ_USER_KEYS"} ->
            IF \E i \in 1..Len(arg.m_inner) :
                  ObjEntry(arg.m_inner[i], joined).typ = "abort"
            THEN Aborted(190)
            ELSE Returned(<<"{">>
                    \o Join([i \in 1..Len(arg.m_inner) |->
                                ObjEntry(arg.m_inner[i], joined).str], <<",">>)
                    \o (IF arg.m_type = "OBJ" THEN <<"}">>
                        ELSE <<",", ".", ".", ".", "}">>))

\* C9 as stated: ARR is "[" + the renderings joined by "," + ",...]" for
\* every number of inner arguments, zero included.
C9_JoinedArray ==
    Done("RPCArg::ToString") => ret = Rendering(call.arg, TRUE)

\* C9, amended: STR and STR_HEX give the quoted name, NUM, AMOUNT and BOOL
\* the bare name, ARR "[" + every inner rendering followed by "," + "...]"
\* (so "[...]" without a comma when there is no inner argument), OBJ "{" +
\* the entries joined by "," + "}", OBJ_USER_KEYS the same closed by ",...}";
\* an entry is "name": and "hex", "str", n, amount or bool, or the array
\* form for ARR, and an OBJ or OBJ_USER_KEYS entry aborts.
C9_Rendering ==
    Done("RPCArg::ToString") => ret = Rendering(call.arg, FALSE)

\* an array without inner arguments has been rendered
C9_Witness ==
    /\ Done("RPCArg::ToString")
    /\ call.arg.m_type = "ARR"
    /\ call.arg.m_inner = <<>>
    /\ ret.str = <<"[", ".", ".", ".", "]">>

====
